---- MODULE Spec2Model ----
(***************************************************************************)
(* A model of the APF tuner (eliasnd/apf-tuning-rust): the sampled trace,  *)
(* the offline reuse reduction, the burst/hibernation reuse counter, the   *)
(* process-wide TARGET_APF and the tuner's malloc/free handlers.           *)
(*                                                                         *)
(* Rust indices are 0-based; TLA+ sequences are 1-based, so event i of the *)
(* source is accesses[i + 1] here and a vector of length n is a function   *)
(* on 0 .. n-1.  An f32 quotient a / b is kept as the pair <<a, b>>; the   *)
(* numbers of the model are far below 2^24, where the casts to f32 are     *)
(* exact and rounding never crosses an integer.                            *)
(***************************************************************************)
EXTENDS Integers, Sequences, FiniteSets, TLC

VARIABLES
    TARGET_APF,    \* lib.rs static: None or Some(value)
    tuner,         \* the ApfTuner under test: None or Some(its fields)
    aborted,       \* TRUE once a panic has unwound the tuner's thread
    last,          \* what the last call did: its result and callback calls
    twin,          \* a second run of the same calls: its tuner and last
    pc,            \* per thread: position inside set_target_apf
    written,       \* history: number of writes to TARGET_APF
    rc,            \* a stand-alone ReuseCounter
    rc_hist,       \* history of the stand-alone counter (ticks, bursts, last call)
    trace,         \* a stand-alone Trace being built with add
    reduced,       \* the result of reuse(trace): None, or Some of [panic, table]
    appended,      \* history: every event passed to add or extend, in order
    hist,          \* a stand-alone Histogram
    hist_last,     \* the last call on hist: its arguments and outcome
    hist_sum,      \* history: per key, the total the calls on hist added
    lc,            \* a stand-alone LivenessCounter
    lc_last,       \* the last call on lc: its argument and outcome
    lc_calls       \* history: the calls made on lc, in order

vars == <<TARGET_APF, tuner, aborted, last, twin, pc, written,
          rc, rc_hist, trace, reduced, appended,
         hist, hist_last, hist_sum, lc, lc_last, lc_calls>>

tunerVars == <<TARGET_APF, tuner, aborted, last, twin, written>>
raceVars == <<pc>>
rcVars == <<rc, rc_hist>>
traceVars == <<trace, reduced, appended>>
histVars == <<hist, hist_last, hist_sum>>
lcVars == <<lc, lc_last, lc_calls>>
liveVars == <<histVars, lcVars>>

----------------------------------------------------------------------------
(* Bounds of the model *)

MaxSlot == 2          \* slots (block addresses) are 1 .. MaxSlot
MaxTraceLen == 5      \* events in the stand-alone trace
MaxSampled == 4       \* events in the tuner's sampled trace
MaxRcEvents == 3      \* events in the stand-alone counter's sampled trace
MaxBurst == 3         \* burst lengths are 1 .. MaxBurst
MaxHibernation == 2   \* hibernation periods are 1 .. MaxHibernation
REUSE_BURST_LENGTH == 3         \* 3000 in constants.rs, scaled down
REUSE_HIBERNATION_PERIOD == 1   \* 6000 in constants.rs, scaled down
MaxApf == 2           \* target APF values are 0 .. MaxApf
MaxCheck == 4         \* check(id) returns 0 .. MaxCheck
MaxTime == 5          \* malloc calls on the tuner
MaxTicks == 7         \* inc_timer calls on the stand-alone counter
NThreads == 3         \* threads that may call set_target_apf
INIT_HISTOGRAM_LENGTH == 2      \* 1 << 5 in constants.rs, scaled down
MaxExtend == 2        \* events in one vector passed to extend
MaxKey == 5           \* histogram keys and liveness windows are 0 .. MaxKey
MaxVal == 2           \* values added to a histogram are 0 .. MaxVal

Slots == 1 .. MaxSlot

\* set_target_apf takes any usize, 0 included
TargetApfs == 0 .. MaxApf

\* Rust's Option: None, or Some(v)
None == [some |-> FALSE]
Some(v) == [some |-> TRUE, val |-> v]

----------------------------------------------------------------------------
(* trace.rs: Event and Trace *)

Alloc(s) == [kind |-> "Alloc", slot |-> s]
Free(s) == [kind |-> "Free", slot |-> s]
Events == {Alloc(s) : s \in Slots} \cup {Free(s) : s \in Slots}

Trace_new == [accesses |-> <<>>, length |-> 0]

Trace_add(t, ev) ==
    [accesses |-> Append(t.accesses, ev), length |-> t.length + 1]

\* A variant of extend that counts the vector as one event.
Trace_extend_counts_one(t, vec) ==
    [accesses |-> t.accesses \o vec, length |-> t.length + 1]

Trace_extend(t, vec) ==
    [accesses |-> t.accesses \o vec, length |-> t.length + Len(vec)]

Trace_get(t, index) == t.accesses[index + 1]

\* The number of Alloc events of the trace.
RECURSIVE CountAllocs(_)
CountAllocs(acc) ==
    IF acc = <<>> THEN 0
    ELSE (IF Head(acc).kind = "Alloc" THEN 1 ELSE 0) + CountAllocs(Tail(acc))

alloc_length(t) == CountAllocs(t.accesses)

\* One pass over the events; frees maps a slot to the index of its most
\* recent Free (None when it has none), an entry is never removed.
RECURSIVE free_intervals_loop(_, _, _, _)
free_intervals_loop(t, i, frees, result) ==
    IF i >= t.length THEN result
    ELSE LET ev == Trace_get(t, i) IN
         IF ev.kind = "Free"
         THEN free_intervals_loop(t, i + 1,
                                  [frees EXCEPT ![ev.slot] = Some(i)], result)
         ELSE IF frees[ev.slot].some
              THEN free_intervals_loop(t, i + 1, frees,
                                       Append(result,
                                              <<frees[ev.slot].val, i>>))
              ELSE free_intervals_loop(t, i + 1, frees, result)

free_intervals(t) ==
    free_intervals_loop(t, 0, [s \in Slots |-> None], <<>>)

\* A variant of the loop of valid that accepts a Free of a slot that was
\* never allocated.
RECURSIVE valid_loop_lenient(_, _, _)
valid_loop_lenient(t, i, alloc) ==
    IF i >= t.length THEN TRUE
    ELSE LET ev == Trace_get(t, i)
             before == alloc[ev.slot]
         IN  IF ev.kind = "Alloc"
             THEN IF before.some /\ before.val = TRUE THEN FALSE
                  ELSE valid_loop_lenient(t, i + 1,
                           [alloc EXCEPT ![ev.slot] = Some(TRUE)])
             ELSE IF before.some /\ before.val = FALSE THEN FALSE
                  ELSE valid_loop_lenient(t, i + 1,
                           [alloc EXCEPT ![ev.slot] = Some(FALSE)])

\* One pass over the events; alloc maps a slot to Some(TRUE) when its last
\* event is an Alloc, Some(FALSE) when it is a Free, None when it has none.
RECURSIVE valid_loop(_, _, _)
valid_loop(t, i, alloc) ==
    IF i >= t.length THEN TRUE
    ELSE LET ev == Trace_get(t, i)
             before == alloc[ev.slot]
         IN  IF ev.kind = "Alloc"
             THEN IF before.some /\ before.val = TRUE THEN FALSE
                  ELSE valid_loop(t, i + 1,
                                  [alloc EXCEPT ![ev.slot] = Some(TRUE)])
             ELSE IF before.some /\ before.val = FALSE THEN FALSE
                  ELSE IF ~before.some THEN FALSE
                  ELSE valid_loop(t, i + 1,
                                  [alloc EXCEPT ![ev.slot] = Some(FALSE)])

valid(t) == valid_loop(t, 0, [s \in Slots |-> None])

----------------------------------------------------------------------------
(* reuse_counter.rs: the offline reuse reduction *)

RECURSIVE SumSeq(_)
SumSeq(q) == IF q = <<>> THEN 0 ELSE Head(q) + SumSeq(Tail(q))

Min(a, b) == IF a <= b THEN a ELSE b
Max(a, b) == IF a >= b THEN a ELSE b

\* The first loop indexes vectors of length n with interval.0, interval.1
\* and len - 1, and line 121 stores into index 0 of a vector of length n:
\* each is a panic when the index is not below n.
reuse_panics(intervals, n) ==
    \/ \E i \in 1 .. Len(intervals) :
           \/ intervals[i][1] >= n
           \/ intervals[i][2] >= n
           \/ intervals[i][2] - intervals[i][1] >= n
    \/ n = 0

\* The numerators x[k-1] + z[k-1] - y[k-1] for k in 1 .. n, as the three
\* passes of the source compute them.  Defined when reuse_panics is FALSE.
reuse_numerators(intervals, n) ==
    LET m == Len(intervals)
        s(i) == intervals[i][1]
        e(i) == intervals[i][2]
        len(i) == e(i) - s(i) + 1
        Acc(P(_), V(_)) ==
            SumSeq([i \in 1 .. m |-> IF P(i) THEN V(i) ELSE 0])
        start_index_counts ==
            [j \in 0 .. n - 1 |->
                LET P(i) == s(i) = j  V(i) == 1 IN Acc(P, V)]
        end_index_counts ==
            [j \in 0 .. n - 1 |->
                LET P(i) == e(i) = j  V(i) == 1 IN Acc(P, V)]
        len_counts ==
            [j \in 0 .. n - 1 |->
                LET P(i) == len(i) - 1 = j  V(i) == 1 IN Acc(P, V)]
        start_indices_sums ==
            [j \in 0 .. n - 1 |->
                LET P(i) == len(i) - 1 = j  V(i) == s(i) IN Acc(P, V)]
        start_indices_min_sums ==
            [j \in 0 .. n - 1 |->
                LET P(i) == len(i) - 1 = j
                    V(i) == Min(n - len(i), s(i)) IN Acc(P, V)]
        end_indices_sums ==
            [j \in 0 .. n - 1 |->
                LET P(i) == len(i) - 1 = j  V(i) == e(i) IN Acc(P, V)]
        end_indices_max_sums ==
            [j \in 0 .. n - 1 |->
                LET P(i) == len(i) - 1 = j
                    V(i) == Max(len(i), e(i)) IN Acc(P, V)]
        start_index_n_k[i \in 0 .. n - 1] ==
            IF i = 0 THEN 0
            ELSE start_index_n_k[i - 1] + start_index_counts[n - i]
        end_index_k_1[i \in 0 .. n - 1] ==
            IF i = 0 THEN 0
            ELSE end_index_k_1[i - 1] + end_index_counts[i]
        len_l_k[i \in 0 .. n - 1] ==
            IF i = 0 THEN len_counts[0]
            ELSE len_l_k[i - 1] + len_counts[i]
        x[i \in 0 .. n - 1] ==
            IF i = 0 THEN start_indices_sums[0]
            ELSE x[i - 1] + start_indices_min_sums[i] - start_index_n_k[i]
        y[i \in 0 .. n - 1] ==
            IF i = 0 THEN end_indices_sums[0]
            ELSE y[i - 1] + end_index_k_1[i - 1] + end_indices_max_sums[i]
        z[i \in 0 .. n - 1] ==
            IF i = 0 THEN len_counts[0]
            ELSE z[i - 1] + len_l_k[i - 1] + (i + 1) * len_counts[i]
    IN  [k \in 1 .. n |-> x[k - 1] + z[k - 1] - y[k - 1]]

\* fn reuse(t): a panic, or the table k |-> <<numerator, n - k + 1>>.
reuse(t) ==
    LET intervals == free_intervals(t)
        n == alloc_length(t)
    IN  IF reuse_panics(intervals, n) THEN [panic |-> TRUE, table |-> <<>>]
        ELSE LET num == reuse_numerators(intervals, n)
             IN  [panic |-> FALSE,
                  table |-> [k \in 1 .. n |-> <<num[k], n - k + 1>>]]

----------------------------------------------------------------------------
(* reuse_counter.rs: ReuseCounter *)

ReuseCounter_new(bl, hp) ==
    [burst_length |-> bl, hibernation_period |-> hp, n |-> 0,
     trace |-> Some(Trace_new), reuse |-> None]

\* A variant of alloc that also advances the timer.
ReuseCounter_alloc_ticks(c, slot) ==
    IF c.trace.some
    THEN [c EXCEPT !.trace = Some(Trace_add(c.trace.val, Alloc(slot)))]
    ELSE [c EXCEPT !.n = c.n + 1]

ReuseCounter_alloc(c, slot) ==
    IF c.trace.some
    THEN [c EXCEPT !.trace = Some(Trace_add(c.trace.val, Alloc(slot)))]
    ELSE c

ReuseCounter_free(c, slot) ==
    IF c.trace.some
    THEN [c EXCEPT !.trace = Some(Trace_add(c.trace.val, Free(slot)))]
    ELSE c

ReuseCounter_sampling(c) == c.trace.some

\* A variant of inc_timer that forgets the cached table when a new burst
\* starts.
ReuseCounter_inc_timer_forgets(c) ==
    LET c1 == [c EXCEPT !.n = c.n + 1] IN
    IF c1.trace.some
    THEN IF c1.n >= c1.burst_length
         THEN LET r == reuse(c1.trace.val) IN
              IF r.panic THEN [panic |-> TRUE, rc |-> c1]
              ELSE [panic |-> FALSE,
                    rc |-> [c1 EXCEPT !.reuse = Some(r.table),
                                      !.n = 0, !.trace = None]]
         ELSE [panic |-> FALSE, rc |-> c1]
    ELSE IF c1.n >= c1.hibernation_period
         THEN [panic |-> FALSE,
               rc |-> [c1 EXCEPT !.n = 0, !.trace = Some(Trace_new),
                                 !.reuse = None]]
         ELSE [panic |-> FALSE, rc |-> c1]

\* A variant of inc_timer that leaves the timer running when the counter
\* starts to hibernate.
ReuseCounter_inc_timer_keeps_n(c) ==
    LET c1 == [c EXCEPT !.n = c.n + 1] IN
    IF c1.trace.some
    THEN IF c1.n >= c1.burst_length
         THEN LET r == reuse(c1.trace.val) IN
              IF r.panic THEN [panic |-> TRUE, rc |-> c1]
              ELSE [panic |-> FALSE,
                    rc |-> [c1 EXCEPT !.reuse = Some(r.table),
                                      !.trace = None]]
         ELSE [panic |-> FALSE, rc |-> c1]
    ELSE IF c1.n >= c1.hibernation_period
         THEN [panic |-> FALSE,
               rc |-> [c1 EXCEPT !.n = 0, !.trace = Some(Trace_new)]]
         ELSE [panic |-> FALSE, rc |-> c1]

\* inc_timer: [panic, rc].  When the reduction panics the timer has been
\* advanced and nothing else has been assigned.
ReuseCounter_inc_timer(c) ==
    LET c1 == [c EXCEPT !.n = c.n + 1] IN
    IF c1.trace.some
    THEN IF c1.n >= c1.burst_length
         THEN LET r == reuse(c1.trace.val) IN
              IF r.panic THEN [panic |-> TRUE, rc |-> c1]
              ELSE [panic |-> FALSE,
                    rc |-> [c1 EXCEPT !.reuse = Some(r.table),
                                      !.n = 0, !.trace = None]]
         ELSE [panic |-> FALSE, rc |-> c1]
    ELSE IF c1.n >= c1.hibernation_period
         THEN [panic |-> FALSE,
               rc |-> [c1 EXCEPT !.n = 0, !.trace = Some(Trace_new)]]
         ELSE [panic |-> FALSE, rc |-> c1]

\* reuse(k): None without a table, the entry of k, or 0.0 for an absent k.
ReuseCounter_reuse(c, k) ==
    IF c.reuse.some
    THEN IF k \in DOMAIN c.reuse.val THEN Some(c.reuse.val[k])
         ELSE Some(<<0, 1>>)
    ELSE None

----------------------------------------------------------------------------
(* lib.rs: ApfTuner *)

USE_ALLOCATION_CLOCK == TRUE

\* f32::ceil of the quotient q[1] / q[2], q[2] > 0
Ceil(q) == -((-q[1]) \div q[2])

\* "as usize" and "as u32" of a float saturate: a negative value becomes 0
CastUnsigned(v) == IF v < 0 THEN 0 ELSE v

\* The fields of a new tuner; the liveness counter is not touched under the
\* allocation clock and is left out.
ApfTuner_new ==
    [r_counter |-> ReuseCounter_new(REUSE_BURST_LENGTH,
                                    REUSE_HIBERNATION_PERIOD),
     time |-> 0, fetch_count |-> 0]

count_fetch(tn) == [tn EXCEPT !.fetch_count = tn.fetch_count + 1]

\* A variant of calculate_dapf whose plateau starts one step late.
calculate_dapf_strict(tn, tapf) ==
    IF tn.time > tapf * (tn.fetch_count + 1)
    THEN tapf
    ELSE tapf * (tn.fetch_count + 1) - tn.time

\* A variant of calculate_dapf without the plateau: the residual, 0 once
\* the target is passed.
calculate_dapf_no_plateau(tn, tapf) ==
    CastUnsigned(tapf * (tn.fetch_count + 1) - tn.time)

calculate_dapf(tn, tapf) ==
    IF tn.time >= tapf * (tn.fetch_count + 1)
    THEN tapf
    ELSE tapf * (tn.fetch_count + 1) - tn.time

\* A variant of demand that is also unknown at k = time.
demand_strict(tn, k) ==
    IF k >= tn.time THEN None
    ELSE LET r == ReuseCounter_reuse(tn.r_counter, k) IN
         IF r.some
         THEN Some(<<k * r.val[2] - r.val[1], r.val[2]>>)
         ELSE None

\* demand(k): None, or Some(k - r) with r = reuse(k)
demand(tn, k) ==
    IF k > tn.time THEN None
    ELSE LET r == ReuseCounter_reuse(tn.r_counter, k) IN
         IF r.some
         THEN Some(<<k * r.val[2] - r.val[1], r.val[2]>>)
         ELSE None

\* What a call did: the tuner it leaves, its result ("true", "false",
\* "panic"), the value check returned when it was invoked, the arguments of
\* each get and return, and what those callbacks answered.
Outcome(tn, res, chk, gets, rets, ans) ==
    [tuner |-> tn, result |-> res, check |-> chk, get |-> gets, ret |-> rets,
     answers |-> ans]

\* A variant of malloc that casts the demand without ceil.
ApfTuner_malloc_truncates(tn, tapf, ptr, c, g) ==
    LET t1 == [tn EXCEPT !.time = tn.time + 1]
        t2 == [t1 EXCEPT !.r_counter = ReuseCounter_alloc(t1.r_counter, ptr)]
        tick == ReuseCounter_inc_timer(t2.r_counter)
        t3 == [t2 EXCEPT !.r_counter = tick.rc]
        d == demand(t3, calculate_dapf(t3, tapf))
    IN  IF tick.panic THEN Outcome(t3, "panic", None, <<>>, <<>>, <<>>)
        ELSE IF c = 0
             THEN IF d.some
                  THEN Outcome(t3, "true", Some(c),
                               <<CastUnsigned(d.val[1] \div d.val[2])>>,
                               <<>>, <<g>>)
                  ELSE Outcome(t3, "false", Some(c), <<>>, <<>>, <<>>)
             ELSE Outcome(t3, "true", Some(c), <<>>, <<>>, <<>>)

\* A variant of malloc that returns what get answered.
ApfTuner_malloc_returns_get(tn, tapf, ptr, c, g) ==
    LET t1 == [tn EXCEPT !.time = tn.time + 1]
        t2 == [t1 EXCEPT !.r_counter = ReuseCounter_alloc(t1.r_counter, ptr)]
        tick == ReuseCounter_inc_timer(t2.r_counter)
        t3 == [t2 EXCEPT !.r_counter = tick.rc]
        d == demand(t3, calculate_dapf(t3, tapf))
    IN  IF tick.panic THEN Outcome(t3, "panic", None, <<>>, <<>>, <<>>)
        ELSE IF c = 0
             THEN IF d.some
                  THEN Outcome(t3, IF g THEN "true" ELSE "false", Some(c),
                               <<CastUnsigned(Ceil(d.val))>>, <<>>, <<g>>)
                  ELSE Outcome(t3, "false", Some(c), <<>>, <<>>, <<>>)
             ELSE Outcome(t3, "true", Some(c), <<>>, <<>>, <<>>)

\* malloc(ptr), with c the value check(id) returns and g the boolean get
\* returns, if they are invoked.  The value of get is dropped (line 93) and
\* count_fetch is not called.
ApfTuner_malloc(tn, tapf, ptr, c, g) ==
    LET t1 == [tn EXCEPT !.time = tn.time + 1]
        t2 == [t1 EXCEPT !.r_counter = ReuseCounter_alloc(t1.r_counter, ptr)]
        tick == ReuseCounter_inc_timer(t2.r_counter)
        t3 == [t2 EXCEPT !.r_counter = tick.rc]
        d == demand(t3, calculate_dapf(t3, tapf))
    IN  IF tick.panic THEN Outcome(t3, "panic", None, <<>>, <<>>, <<>>)
        ELSE IF c = 0
             THEN IF d.some
                  THEN Outcome(t3, "true", Some(c),
                               <<CastUnsigned(Ceil(d.val))>>, <<>>, <<g>>)
                  ELSE Outcome(t3, "false", Some(c), <<>>, <<>>, <<>>)
             ELSE Outcome(t3, "true", Some(c), <<>>, <<>>, <<>>)

\* A variant of free that returns blocks only above 2 * demand + 1.
ApfTuner_free_above(tn, tapf, ptr, c, r) ==
    LET t1 == [tn EXCEPT !.r_counter = ReuseCounter_free(tn.r_counter, ptr)]
        d == demand(t1, calculate_dapf(t1, tapf))
    IN  IF ~d.some \/ d.val[1] < 0
        THEN Outcome(t1, "false", None, <<>>, <<>>, <<>>)
        ELSE IF c * d.val[2] > 2 * d.val[1] + d.val[2]
             THEN Outcome(t1, "true", Some(c), <<>>,
                          <<CastUnsigned(Ceil(d.val)) + 1>>, <<r>>)
             ELSE Outcome(t1, "true", Some(c), <<>>, <<>>, <<>>)

\* A variant of free that returns blocks as soon as check reaches demand.
ApfTuner_free_eager(tn, tapf, ptr, c, r) ==
    LET t1 == [tn EXCEPT !.r_counter = ReuseCounter_free(tn.r_counter, ptr)]
        d == demand(t1, calculate_dapf(t1, tapf))
    IN  IF ~d.some \/ d.val[1] < 0
        THEN Outcome(t1, "false", None, <<>>, <<>>, <<>>)
        ELSE IF c * d.val[2] >= d.val[1]
             THEN Outcome(t1, "true", Some(c), <<>>,
                          <<CastUnsigned(Ceil(d.val)) + 1>>, <<r>>)
             ELSE Outcome(t1, "true", Some(c), <<>>, <<>>, <<>>)

\* free(ptr), with c the value check(id) returns and r the boolean ret
\* returns, if they are invoked.  The value of ret is dropped (line 122).
\* Off the allocation clock the liveness counter is ticked too (lines
\* 108-109); it is not part of this model.
ApfTuner_free(tn, tapf, ptr, c, r) ==
    LET t1 == [tn EXCEPT !.r_counter = ReuseCounter_free(tn.r_counter, ptr)]
        tick == IF USE_ALLOCATION_CLOCK
                THEN [panic |-> FALSE, rc |-> t1.r_counter]
                ELSE ReuseCounter_inc_timer(t1.r_counter)
        t2 == IF USE_ALLOCATION_CLOCK THEN t1
              ELSE [t1 EXCEPT !.r_counter = tick.rc, !.time = t1.time + 1]
        d == demand(t2, calculate_dapf(t2, tapf))
    IN  IF tick.panic THEN Outcome(t2, "panic", None, <<>>, <<>>, <<>>)
        ELSE IF ~d.some \/ d.val[1] < 0
             THEN Outcome(t2, "false", None, <<>>, <<>>, <<>>)
             ELSE IF c * d.val[2] >= 2 * d.val[1] + d.val[2]
                  THEN Outcome(t2, "true", Some(c), <<>>,
                               <<CastUnsigned(Ceil(d.val)) + 1>>, <<r>>)
                  ELSE Outcome(t2, "true", Some(c), <<>>, <<>>, <<>>)

----------------------------------------------------------------------------
(* histogram.rs: Histogram, a Vec<usize> made by Vec::with_capacity *)

\* Vec::with_capacity(INIT_HISTOGRAM_LENGTH): no element (len 0), room for
\* INIT_HISTOGRAM_LENGTH.  Nothing in histogram.rs pushes or resizes, so
\* the vector keeps len 0.
Histogram_new == [histogram |-> <<>>, capacity |-> INIT_HISTOGRAM_LENGTH]

\* What a histogram call did: a panic or not, the histogram it leaves and
\* the value it returns.
HistOutcome(p, h, v) == [panic |-> p, h |-> h, val |-> v]

\* self.histogram[key] is a panic unless key < len
InRange(h, key) == key < Len(h.histogram)

\* while reserve_amount <= failed_key { reserve_amount *= 2 }
RECURSIVE reserve_amount(_, _)
reserve_amount(amount, failed_key) ==
    IF amount <= failed_key THEN reserve_amount(amount * 2, failed_key)
    ELSE amount

\* Vec::reserve(additional): nothing when capacity - len >= additional,
\* else the capacity becomes max(2 * capacity, len + additional)
Vec_reserve(h, additional) ==
    IF h.capacity - Len(h.histogram) >= additional THEN h
    ELSE [h EXCEPT !.capacity =
              Max(2 * h.capacity, Len(h.histogram) + additional)]

\* grow(failed_key): reserve, then store 0 at oldMax .. capacity - 1; the
\* first store is a panic when oldMax is not below len.
Histogram_grow(h, failed_key) ==
    LET oldMax == h.capacity
        h1 == Vec_reserve(h, reserve_amount(oldMax, failed_key))
    IN  IF oldMax >= h1.capacity THEN HistOutcome(FALSE, h1, 0)
        ELSE IF ~InRange(h1, oldMax) THEN HistOutcome(TRUE, h1, 0)
        ELSE HistOutcome(FALSE,
                 [h1 EXCEPT !.histogram =
                     [j \in 1 .. Len(h1.histogram) |->
                         IF j - 1 >= oldMax THEN 0 ELSE h1.histogram[j]]], 0)

\* add(key, val)
Histogram_add(h, key, val) ==
    LET g == IF key >= h.capacity - 1 THEN Histogram_grow(h, key)
             ELSE HistOutcome(FALSE, h, 0)
    IN  IF g.panic THEN g
        ELSE IF ~InRange(g.h, key) THEN HistOutcome(TRUE, g.h, 0)
        ELSE HistOutcome(FALSE,
                 [g.h EXCEPT !.histogram[key + 1] =
                                 g.h.histogram[key + 1] + val], 0)

\* increment(key): the same steps as add(key, 1)
Histogram_increment(h, key) == Histogram_add(h, key, 1)

\* get(key)
Histogram_get(h, key) ==
    IF key >= h.capacity THEN HistOutcome(FALSE, h, 0)
    ELSE IF ~InRange(h, key) THEN HistOutcome(TRUE, h, 0)
    ELSE HistOutcome(FALSE, h, h.histogram[key + 1])

\* count()
Histogram_count(h) == Len(h.histogram)

----------------------------------------------------------------------------
(* liveness_counter.rs: LivenessCounter *)

LivenessCounter_new ==
    [n |-> 0, m |-> 0,
     alloc_sum |-> Histogram_new, alloc_counts |-> Histogram_new,
     free_sum |-> Histogram_new, free_counts |-> Histogram_new]

\* What a counter call did: a panic or not, the counter it leaves and the
\* value it returns (liveness: the quotient <<numerator, denominator>>).
LiveOutcome(p, c, v) == [panic |-> p, lc |-> c, val |-> v]

\* alloc(): alloc_sum.add(n, n); alloc_counts.increment(n); m += 1
LivenessCounter_alloc(c) ==
    LET a == Histogram_add(c.alloc_sum, c.n, c.n)
        c1 == [c EXCEPT !.alloc_sum = a.h]
        b == Histogram_increment(c1.alloc_counts, c1.n)
        c2 == [c1 EXCEPT !.alloc_counts = b.h]
    IN  IF a.panic THEN LiveOutcome(TRUE, c1, <<0, 1>>)
        ELSE IF b.panic THEN LiveOutcome(TRUE, c2, <<0, 1>>)
        ELSE LiveOutcome(FALSE, [c2 EXCEPT !.m = c2.m + 1], <<0, 1>>)

\* free(): free_sum.add(n, n); free_counts.increment(n)
LivenessCounter_free(c) ==
    LET a == Histogram_add(c.free_sum, c.n, c.n)
        c1 == [c EXCEPT !.free_sum = a.h]
        b == Histogram_increment(c1.free_counts, c1.n)
        c2 == [c1 EXCEPT !.free_counts = b.h]
    IN  IF a.panic THEN LiveOutcome(TRUE, c1, <<0, 1>>)
        ELSE IF b.panic THEN LiveOutcome(TRUE, c2, <<0, 1>>)
        ELSE LiveOutcome(FALSE, c2, <<0, 1>>)

\* h.add(n, h.get(n - 1)) on one histogram: the argument is evaluated first
CarryOver(h, n) ==
    LET g == Histogram_get(h, n - 1)
    IN  IF g.panic THEN g ELSE Histogram_add(h, n, g.val)

\* inc_timer(): n += 1, then the running totals of n - 1 are carried to n
\* in alloc_counts, alloc_sum, free_counts, free_sum, in this order.
LivenessCounter_inc_timer(c) ==
    LET c0 == [c EXCEPT !.n = c.n + 1]
        a == CarryOver(c0.alloc_counts, c0.n)
        c1 == [c0 EXCEPT !.alloc_counts = a.h]
        b == CarryOver(c1.alloc_sum, c1.n)
        c2 == [c1 EXCEPT !.alloc_sum = b.h]
        d == CarryOver(c2.free_counts, c2.n)
        c3 == [c2 EXCEPT !.free_counts = d.h]
        e == CarryOver(c3.free_sum, c3.n)
        c4 == [c3 EXCEPT !.free_sum = e.h]
    IN  IF a.panic THEN LiveOutcome(TRUE, c1, <<0, 1>>)
        ELSE IF b.panic THEN LiveOutcome(TRUE, c2, <<0, 1>>)
        ELSE IF d.panic THEN LiveOutcome(TRUE, c3, <<0, 1>>)
        ELSE IF e.panic THEN LiveOutcome(TRUE, c4, <<0, 1>>)
        ELSE LiveOutcome(FALSE, c4, <<0, 1>>)

\* liveness(k): 0.0 when i = n - k + 1 is negative, else
\* (tmp1 + m * k - tmp2) / i; each get may panic.  The subtractions are on
\* usize: a negative difference is a panic where overflow is checked.
LivenessCounter_liveness(c, k) ==
    LET i == c.n - k + 1
        g1 == Histogram_get(c.free_counts, i)
        g2 == Histogram_get(c.free_sum, i)
        g3 == Histogram_get(c.alloc_counts, k)
        g4 == Histogram_get(c.alloc_sum, c.n)
        g5 == Histogram_get(c.alloc_sum, k)
        tmp1 == (c.m - g1.val) * i + g2.val
        tmp2 == g3.val * k + g4.val - g5.val
    IN  IF i < 0 THEN LiveOutcome(FALSE, c, <<0, 1>>)
        ELSE IF g1.panic \/ g2.panic \/ g3.panic \/ g4.panic \/ g5.panic
             THEN LiveOutcome(TRUE, c, <<0, 1>>)
        ELSE IF c.m - g1.val < 0 \/ g3.val * k + g4.val - g5.val < 0
                \/ tmp1 + c.m * k - tmp2 < 0
             THEN LiveOutcome(TRUE, c, <<0, 1>>)
        ELSE LiveOutcome(FALSE, c, <<tmp1 + c.m * k - tmp2, i>>)

----------------------------------------------------------------------------
(* Initial values of the variables a specification does not use *)

NoCall == [op |-> "none", result |-> "none", check |-> None,
           get |-> <<>>, ret |-> <<>>, answers |-> <<>>]

TunerIdle ==
    /\ TARGET_APF = None
    /\ tuner = None
    /\ aborted = FALSE
    /\ last = NoCall
    /\ twin = None
    /\ written = 0

RaceIdle == pc = [t \in 1 .. NThreads |-> [at |-> "idle", tapf |-> 0]]

RcIdle == rc = None /\ rc_hist = None

TraceIdle == trace = Trace_new /\ reduced = None /\ appended = <<>>

NoHistCall == [op |-> "none", key |-> 0, arg |-> 0, val |-> 0,
               panic |-> FALSE]

NoLcCall == [op |-> "none", k |-> 0, val |-> <<0, 1>>, panic |-> FALSE]

LiveIdle ==
    /\ hist = Histogram_new
    /\ hist_last = NoHistCall
    /\ hist_sum = [k \in 0 .. MaxKey |-> 0]
    /\ lc = LivenessCounter_new
    /\ lc_last = NoLcCall
    /\ lc_calls = <<>>

----------------------------------------------------------------------------
(* The tuner driven by its host, one call at a time *)

Init == TunerIdle /\ RaceIdle /\ RcIdle /\ TraceIdle /\ LiveIdle

\* A variant of set_target_apf that overwrites a value already set.
SetTargetApf_overwrites(tapf) ==
    /\ ~aborted
    /\ TARGET_APF' = Some(tapf)
    /\ written' = written + 1
    /\ last' = [NoCall EXCEPT !.op = "set_target_apf", !.result = "ok"]
    /\ UNCHANGED <<aborted, tuner, twin, raceVars, rcVars, traceVars, liveVars>>

\* set_target_apf(tapf) as one step: a panic when the value is set
SetTargetApf(tapf) ==
    /\ ~aborted
    /\ IF TARGET_APF.some
       THEN /\ aborted' = TRUE
            /\ last' = [NoCall EXCEPT !.op = "set_target_apf",
                                      !.result = "panic"]
            /\ UNCHANGED <<TARGET_APF, written>>
       ELSE /\ TARGET_APF' = Some(tapf)
            /\ written' = written + 1
            /\ last' = [NoCall EXCEPT !.op = "set_target_apf",
                                      !.result = "ok"]
            /\ UNCHANGED aborted
    /\ UNCHANGED <<tuner, twin, raceVars, rcVars, traceVars, liveVars>>

\* ApfTuner::new: a panic when TARGET_APF is unset
NewTuner ==
    /\ ~aborted
    /\ ~tuner.some
    /\ IF TARGET_APF.some
       THEN /\ tuner' = Some(ApfTuner_new)
            /\ last' = [NoCall EXCEPT !.op = "new", !.result = "ok"]
            /\ UNCHANGED aborted
       ELSE /\ aborted' = TRUE
            /\ last' = [NoCall EXCEPT !.op = "new", !.result = "panic"]
            /\ UNCHANGED tuner
    /\ UNCHANGED <<TARGET_APF, twin, written,
                   raceVars, rcVars, traceVars, liveVars>>

CallRecord(name, o) ==
    [op |-> name, result |-> o.result, check |-> o.check,
     get |-> o.get, ret |-> o.ret, answers |-> o.answers]

SampledFull(tn) ==
    /\ tn.r_counter.trace.some
    /\ tn.r_counter.trace.val.length >= MaxSampled

Malloc(ptr, c, g) ==
    /\ ~aborted
    /\ tuner.some
    /\ tuner.val.time < MaxTime
    /\ ~SampledFull(tuner.val)
    /\ \E o \in {ApfTuner_malloc(tuner.val, TARGET_APF.val, ptr, c, g)} :
       /\ tuner' = Some(o.tuner)
       /\ aborted' = (o.result = "panic")
       /\ last' = CallRecord("malloc", o)
    /\ UNCHANGED <<TARGET_APF, twin, written, raceVars, rcVars, traceVars, liveVars>>

FreeCall(ptr, c, r) ==
    /\ ~aborted
    /\ tuner.some
    /\ ~SampledFull(tuner.val)
    /\ \E o \in {ApfTuner_free(tuner.val, TARGET_APF.val, ptr, c, r)} :
       /\ tuner' = Some(o.tuner)
       /\ aborted' = (o.result = "panic")
       /\ last' = CallRecord("free", o)
    /\ UNCHANGED <<TARGET_APF, twin, written, raceVars, rcVars, traceVars, liveVars>>

Next ==
    \/ \E tapf \in TargetApfs : SetTargetApf(tapf)
    \/ NewTuner
    \/ \E ptr \in Slots, c \in 0 .. MaxCheck, g \in BOOLEAN : Malloc(ptr, c, g)
    \/ \E ptr \in Slots, c \in 0 .. MaxCheck, r \in BOOLEAN :
           FreeCall(ptr, c, r)

Spec == Init /\ [][Next]_vars

----------------------------------------------------------------------------
(* Two runs of one tuner on the same calls and the same check values, the  *)
(* host's get and return answering each run as it likes                    *)

PairInit ==
    /\ RaceIdle /\ RcIdle /\ TraceIdle /\ LiveIdle
    /\ aborted = FALSE
    /\ written = 1
    /\ last = NoCall
    /\ \E tapf \in TargetApfs : TARGET_APF = Some(tapf)
    /\ tuner = Some(ApfTuner_new)
    /\ twin = Some([tuner |-> ApfTuner_new, last |-> NoCall])

PairMalloc(ptr, c, g1, g2) ==
    /\ ~aborted
    /\ tuner.val.time < MaxTime
    /\ ~SampledFull(tuner.val)
    /\ \E o1 \in {ApfTuner_malloc(tuner.val, TARGET_APF.val, ptr, c, g1)},
          o2 \in {ApfTuner_malloc(twin.val.tuner, TARGET_APF.val, ptr, c, g2)} :
           /\ tuner' = Some(o1.tuner)
           /\ last' = CallRecord("malloc", o1)
           /\ twin' = Some([tuner |-> o2.tuner,
                            last |-> CallRecord("malloc", o2)])
           /\ aborted' = (o1.result = "panic" \/ o2.result = "panic")
    /\ UNCHANGED <<TARGET_APF, written, raceVars, rcVars, traceVars, liveVars>>

PairFree(ptr, c, r1, r2) ==
    /\ ~aborted
    /\ ~SampledFull(tuner.val)
    /\ \E o1 \in {ApfTuner_free(tuner.val, TARGET_APF.val, ptr, c, r1)},
          o2 \in {ApfTuner_free(twin.val.tuner, TARGET_APF.val, ptr, c, r2)} :
           /\ tuner' = Some(o1.tuner)
           /\ last' = CallRecord("free", o1)
           /\ twin' = Some([tuner |-> o2.tuner,
                            last |-> CallRecord("free", o2)])
           /\ aborted' = (o1.result = "panic" \/ o2.result = "panic")
    /\ UNCHANGED <<TARGET_APF, written, raceVars, rcVars, traceVars, liveVars>>

PairNext ==
    \/ \E ptr \in Slots, c \in 0 .. MaxCheck, g1 \in BOOLEAN, g2 \in BOOLEAN :
           PairMalloc(ptr, c, g1, g2)
    \/ \E ptr \in Slots, c \in 0 .. MaxCheck, r1 \in BOOLEAN, r2 \in BOOLEAN :
           PairFree(ptr, c, r1, r2)

SpecPair == PairInit /\ [][PairNext]_vars

----------------------------------------------------------------------------
(* set_target_apf called from several threads: lib.rs reads the static     *)
(* (the match, line 16) and then writes it (the assignment), with nothing  *)
(* between the two that keeps another thread out.                          *)

RaceInit == Init

SetRead(t, tapf) ==
    /\ pc[t].at = "idle"
    /\ IF TARGET_APF.some
       THEN pc' = [pc EXCEPT ![t] = [at |-> "panicked", tapf |-> 0]]
       ELSE pc' = [pc EXCEPT ![t] = [at |-> "write", tapf |-> tapf]]
    /\ UNCHANGED <<tunerVars, rcVars, traceVars, liveVars>>

SetWrite(t) ==
    /\ pc[t].at = "write"
    /\ TARGET_APF' = Some(pc[t].tapf)
    /\ written' = written + 1
    /\ pc' = [pc EXCEPT ![t] = [at |-> "done", tapf |-> pc[t].tapf]]
    /\ UNCHANGED <<tuner, aborted, last, twin, rcVars, traceVars, liveVars>>

RaceNext ==
    \E t \in 1 .. NThreads :
        \/ \E tapf \in TargetApfs : SetRead(t, tapf)
        \/ SetWrite(t)

SpecRace == RaceInit /\ [][RaceNext]_vars

----------------------------------------------------------------------------
(* A stand-alone ReuseCounter: alloc, free and inc_timer in any order *)

RcInit ==
    /\ TunerIdle /\ RaceIdle /\ TraceIdle /\ LiveIdle
    /\ \E bl \in 1 .. MaxBurst, hp \in 1 .. MaxHibernation :
           rc = Some(ReuseCounter_new(bl, hp))
    /\ rc_hist = Some([ticks |-> 0, bursts |-> 0, panicked |-> FALSE,
                       last |-> "new"])

RcRoom ==
    /\ ~rc_hist.val.panicked
    /\ rc.val.trace.some => rc.val.trace.val.length < MaxRcEvents

RcAlloc(slot) ==
    /\ RcRoom
    /\ rc' = Some(ReuseCounter_alloc(rc.val, slot))
    /\ rc_hist' = Some([rc_hist.val EXCEPT !.last = "alloc"])
    /\ UNCHANGED <<tunerVars, raceVars, traceVars, liveVars>>

RcFree(slot) ==
    /\ RcRoom
    /\ rc' = Some(ReuseCounter_free(rc.val, slot))
    /\ rc_hist' = Some([rc_hist.val EXCEPT !.last = "free"])
    /\ UNCHANGED <<tunerVars, raceVars, traceVars, liveVars>>

RcIncTimer ==
    /\ ~rc_hist.val.panicked
    /\ rc_hist.val.ticks < MaxTicks
    /\ LET o == ReuseCounter_inc_timer(rc.val) IN
       /\ rc' = Some(o.rc)
       /\ rc_hist' = Some([ticks |-> rc_hist.val.ticks + 1,
                           bursts |-> rc_hist.val.bursts +
                               (IF rc.val.trace.some /\ ~o.rc.trace.some
                                THEN 1 ELSE 0),
                           panicked |-> o.panic, last |-> "inc_timer"])
    /\ UNCHANGED <<tunerVars, raceVars, traceVars, liveVars>>

RcNext ==
    \/ \E slot \in Slots : RcAlloc(slot)
    \/ \E slot \in Slots : RcFree(slot)
    \/ RcIncTimer

SpecRc == RcInit /\ [][RcNext]_vars

----------------------------------------------------------------------------
(* A stand-alone Trace: built with add, reduced with reuse *)

TraceInit == TunerIdle /\ RaceIdle /\ RcIdle /\ TraceIdle /\ LiveIdle

TraceAdd(ev) ==
    /\ trace.length < MaxTraceLen
    /\ trace' = Trace_add(trace, ev)
    /\ appended' = Append(appended, ev)
    /\ reduced' = None
    /\ UNCHANGED <<tunerVars, raceVars, rcVars, liveVars>>

\* The vectors extend is called with: up to MaxExtend events, none included
RECURSIVE EventVecs(_)
EventVecs(len) ==
    IF len = 0 THEN {<<>>}
    ELSE EventVecs(len - 1) \cup
         {Append(v, ev) : v \in EventVecs(len - 1), ev \in Events}

TraceExtend(vec) ==
    /\ Len(trace.accesses) + Len(vec) <= MaxTraceLen
    /\ trace' = Trace_extend(trace, vec)
    /\ appended' = appended \o vec
    /\ reduced' = None
    /\ UNCHANGED <<tunerVars, raceVars, rcVars, liveVars>>

TraceReduce ==
    /\ ~reduced.some
    /\ reduced' = Some(reuse(trace))
    /\ UNCHANGED <<tunerVars, raceVars, rcVars, liveVars, trace, appended>>

TraceNext ==
    \/ \E ev \in Events : TraceAdd(ev)
    \/ \E vec \in EventVecs(MaxExtend) : TraceExtend(vec)
    \/ TraceReduce

SpecTrace == TraceInit /\ [][TraceNext]_vars

----------------------------------------------------------------------------
(* A stand-alone Histogram and a stand-alone LivenessCounter, each driven  *)
(* by its own thread; a panic ends the thread that owns the object         *)

LiveInit == TunerIdle /\ RaceIdle /\ RcIdle /\ TraceIdle /\ LiveIdle

HistCall(name, key, arg, o) ==
    /\ ~hist_last.panic
    /\ hist' = o.h
    /\ hist_last' = [op |-> name, key |-> key, arg |-> arg, val |-> o.val,
                     panic |-> o.panic]

HistIncrement(key) ==
    /\ HistCall("increment", key, 1, Histogram_increment(hist, key))
    /\ hist_sum' = [hist_sum EXCEPT ![key] = hist_sum[key] + 1]
    /\ UNCHANGED <<tunerVars, raceVars, rcVars, traceVars, lcVars>>

HistAdd(key, v) ==
    /\ HistCall("add", key, v, Histogram_add(hist, key, v))
    /\ hist_sum' = [hist_sum EXCEPT ![key] = hist_sum[key] + v]
    /\ UNCHANGED <<tunerVars, raceVars, rcVars, traceVars, lcVars>>

HistGet(key) ==
    /\ HistCall("get", key, 0, Histogram_get(hist, key))
    /\ UNCHANGED <<hist_sum, tunerVars, raceVars, rcVars, traceVars, lcVars>>

LcCall(name, k, o) ==
    /\ ~lc_last.panic
    /\ lc.n < MaxKey
    /\ lc' = o.lc
    /\ lc_last' = [op |-> name, k |-> k, val |-> o.val, panic |-> o.panic]
    /\ lc_calls' = Append(lc_calls, <<name, k>>)

LcAlloc ==
    /\ LcCall("alloc", 0, LivenessCounter_alloc(lc))
    /\ UNCHANGED <<tunerVars, raceVars, rcVars, traceVars, histVars>>

LcFree ==
    /\ LcCall("free", 0, LivenessCounter_free(lc))
    /\ UNCHANGED <<tunerVars, raceVars, rcVars, traceVars, histVars>>

LcIncTimer ==
    /\ LcCall("inc_timer", 0, LivenessCounter_inc_timer(lc))
    /\ UNCHANGED <<tunerVars, raceVars, rcVars, traceVars, histVars>>

\* one query; a second one would only repeat it
LcLiveness(k) ==
    /\ lc_last.op # "liveness"
    /\ LcCall("liveness", k, LivenessCounter_liveness(lc, k))
    /\ UNCHANGED <<tunerVars, raceVars, rcVars, traceVars, histVars>>

LiveNext ==
    \/ \E key \in 0 .. MaxKey : HistIncrement(key)
    \/ \E key \in 0 .. MaxKey, v \in 0 .. MaxVal : HistAdd(key, v)
    \/ \E key \in 0 .. MaxKey : HistGet(key)
    \/ LcAlloc
    \/ LcFree
    \/ LcIncTimer
    \/ \E k \in 0 .. MaxKey : LcLiveness(k)

SpecLive == LiveInit /\ [][LiveNext]_vars

----------------------------------------------------------------------------
(* The claims *)

\* The reference of C1: the number of (window, interval) pairs with the
\* interval inside the window, over the n - k + 1 windows [w, w + k - 1],
\* w in 0 .. n - k, of the positions 0 .. n - 1.
NaiveCount(intervals, n, k) ==
    Cardinality({p \in (0 .. n - k) \X (1 .. Len(intervals)) :
                    /\ p[1] <= intervals[p[2]][1]
                    /\ intervals[p[2]][2] <= p[1] + k - 1})

NaiveTable(t) ==
    [k \in 1 .. alloc_length(t) |->
        <<NaiveCount(free_intervals(t), alloc_length(t), k),
          alloc_length(t) - k + 1>>]

\* C1: for every trace with n >= 1 and every k in 1 .. n the linear
\* reduction yields the naive reference's R(k): the numerator is the
\* containment count and the denominator is n - k + 1.
C1_ReductionEqualsNaive ==
    (reduced.some /\ alloc_length(trace) >= 1) =>
        /\ ~reduced.val.panic
        /\ reduced.val.table = NaiveTable(trace)

\* demand(dapf()) in the current state of the tuner
CurrentDemand ==
    demand(tuner.val, calculate_dapf(tuner.val, TARGET_APF.val))

Returned(name) == last.op = name /\ last.result # "panic"

CheckIs0 == last.check.some /\ last.check.val = 0

\* C2: a malloc whose check returned 0 with demand(dapf()) known invokes
\* get exactly once, with ceil(demand(dapf())) (dapf itself when R(dapf) is
\* 0), and returns success; a malloc whose check returned non-zero does not
\* invoke get.
C2_MallocFetches ==
    Returned("malloc") =>
        /\ (CheckIs0 /\ CurrentDemand.some) =>
              /\ last.get = <<Ceil(CurrentDemand.val)>>
              /\ last.result = "true"
              /\ ReuseCounter_reuse(tuner.val.r_counter,
                     calculate_dapf(tuner.val, TARGET_APF.val)).val[1] = 0
                 => last.get = <<calculate_dapf(tuner.val, TARGET_APF.val)>>
        /\ ~CheckIs0 => last.get = <<>>

\* C2 witness: a malloc fetched ceil of a demand that is not an integer
C2_Witness ==
    /\ Returned("malloc") /\ CheckIs0 /\ CurrentDemand.some
    /\ CurrentDemand.val[1] % CurrentDemand.val[2] # 0
    /\ Len(last.get) = 1

\* C3: fetch_count is the number of times the tuner has invoked get: a
\* malloc that invokes get adds exactly 1 to it and no other step changes
\* it.
C3_FetchCounted ==
    [][(tuner.some /\ tuner'.some) =>
          tuner'.val.fetch_count = tuner.val.fetch_count +
              (IF last'.op = "malloc" THEN Len(last'.get) ELSE 0)]_vars

\* C4: free invokes return exactly once, with ceil(demand) + 1, if and
\* only if demand(dapf()) is known, is not negative and check(id) is at
\* least 2 * demand + 1; otherwise it invokes neither return nor get.
C4_FreeReturns ==
    Returned("free") =>
        /\ last.get = <<>>
        /\ IF /\ CurrentDemand.some
              /\ CurrentDemand.val[1] >= 0
              /\ last.check.some
              /\ last.check.val * CurrentDemand.val[2] >=
                     2 * CurrentDemand.val[1] + CurrentDemand.val[2]
           THEN last.ret = <<Ceil(CurrentDemand.val) + 1>>
           ELSE last.ret = <<>>
        /\ (CurrentDemand.some /\ CurrentDemand.val[1] >= 0) => last.check.some

\* C4 witness: a free returned blocks at check = 2 * demand + 1
C4_Witness ==
    /\ Returned("free") /\ Len(last.ret) = 1
    /\ last.check.val * CurrentDemand.val[2] =
           2 * CurrentDemand.val[1] + CurrentDemand.val[2]

\* C5: demand(k) is unknown exactly when the counter has no cached table
\* or k > time; a malloc returns failure exactly when its check returned 0
\* and the demand is unknown, and then it does not invoke get.
C5_UnknownIsSignalled ==
    tuner.some =>
        /\ \A k \in 1 .. MaxTime + 1 :
               ~demand(tuner.val, k).some <=>
                   (~tuner.val.r_counter.reuse.some \/ k > tuner.val.time)
        /\ Returned("malloc") =>
               /\ last.result = "false" <=> (CheckIs0 /\ ~CurrentDemand.some)
               /\ last.result = "false" => last.get = <<>>

\* C5 witness: a malloc whose check returned 0 failed softly, without a
\* get, because no burst has completed yet
C5_Witness ==
    /\ Returned("malloc") /\ CheckIs0 /\ last.result = "false"
    /\ ~tuner.val.r_counter.reuse.some /\ tuner.val.time >= 1
    /\ last.get = <<>>

RcHist == rc_hist.val
Counter == rc.val

\* C6: a fresh counter with burst length B and hibernation period H is
\* sampling for ticks 1 .. B, hibernating for ticks B+1 .. B+H and repeats
\* with period B+H, whatever is allocated or freed between the ticks: after
\* t ticks it is sampling iff t mod (B+H) < B, and every tick completes.
C6_Schedule ==
    /\ ~RcHist.panicked
    /\ ReuseCounter_sampling(Counter) <=>
           (RcHist.ticks % (Counter.burst_length + Counter.hibernation_period)
                < Counter.burst_length)

\* C7: reuse(k) is unknown for every k before the first burst completes
\* and known after it; a cached table is never dropped and changes only
\* when a burst completes; a k absent from the table reads as 0.
C7_TableKept ==
    /\ [](\A k \in 0 .. MaxRcEvents + 1 :
             /\ ReuseCounter_reuse(Counter, k).some <=> RcHist.bursts >= 1
             /\ (Counter.reuse.some /\ k \notin DOMAIN Counter.reuse.val)
                    => ReuseCounter_reuse(Counter, k) = Some(<<0, 1>>))
    /\ [][/\ Counter.reuse.some => rc'.val.reuse.some
          /\ rc'.val.reuse # Counter.reuse
                 => rc_hist'.val.bursts = RcHist.bursts + 1]_vars

\* C7 witness: a second burst is being sampled with the first table cached
C7_Witness ==
    /\ RcHist.bursts = 1
    /\ Counter.reuse.some
    /\ Counter.trace.some
    /\ Counter.trace.val.length >= 1

\* C8: constructing a tuner while TARGET_APF is unset aborts; a call of
\* set_target_apf made when the value is set aborts and leaves the value;
\* once set, a construction succeeds and TARGET_APF never changes.
C8_ConfigurationMisuse ==
    [][/\ (last'.op = "new" /\ ~TARGET_APF.some)
              => (aborted' /\ ~tuner'.some /\ last'.result = "panic")
       /\ (last'.op = "new" /\ TARGET_APF.some)
              => (~aborted' /\ tuner'.some /\ last'.result = "ok")
       /\ (last'.op = "set_target_apf" /\ TARGET_APF.some)
              => (aborted' /\ last'.result = "panic")
       /\ TARGET_APF.some => TARGET_APF' = TARGET_APF]_vars

\* C8 witness: a second set_target_apf aborted after a tuner was built
C8_Witness ==
    /\ last.op = "set_target_apf" /\ last.result = "panic"
    /\ tuner.some /\ TARGET_APF.some

\* C9: with set_target_apf called from several threads at once, at most
\* one call writes TARGET_APF and returns; every other call aborts.
C9_WrittenOnce ==
    /\ written <= 1
    /\ Cardinality({t \in 1 .. NThreads : pc[t].at = "done"}) <= 1

\* C10: two runs of the same malloc and free calls with the same check
\* values, differing only in what get and return answer, leave the same
\* tuner state and give the same results and callback arguments.
C10_AnswersIgnored ==
    /\ twin.val.tuner = tuner.val
    /\ twin.val.last.op = last.op
    /\ twin.val.last.result = last.result
    /\ twin.val.last.check = last.check
    /\ twin.val.last.get = last.get
    /\ twin.val.last.ret = last.ret

\* C10 witness: get answered the two runs differently
C10_Witness ==
    /\ last.op = "malloc" /\ Len(last.get) = 1
    /\ twin.val.last.answers # last.answers

----------------------------------------------------------------------------
(* Claims about the fetch argument, the reduction's errors and edge cases *)

\* C11: whenever malloc invokes get, the demand it fetches for is positive
\* and the argument of get is at least 1.
C11_FetchPositive ==
    (Returned("malloc") /\ Len(last.get) = 1) =>
        /\ CurrentDemand.some /\ CurrentDemand.val[1] > 0
        /\ last.get[1] >= 1

\* C12: the reduction accepts any trace, valid or not, and ends with a
\* table: it never fails on a vector index or an unsigned subtraction.
C12_ReductionNeverFails ==
    reduced.some => ~reduced.val.panic

\* C13: a trace with alloc_length 0 reduces to an empty table, and a trace
\* with no free interval reduces to R(k) = 0 for every k in 1 .. n.
C13_EdgeCases ==
    reduced.some =>
        /\ alloc_length(trace) = 0 =>
               (~reduced.val.panic /\ reduced.val.table = <<>>)
        /\ (alloc_length(trace) >= 1 /\ free_intervals(trace) = <<>>) =>
               /\ ~reduced.val.panic
               /\ \A k \in 1 .. alloc_length(trace) :
                      reduced.val.table[k][1] = 0

\* The second half of C13 alone
C13_NoIntervals ==
    (reduced.some /\ alloc_length(trace) >= 1
                  /\ free_intervals(trace) = <<>>) =>
        /\ ~reduced.val.panic
        /\ \A k \in 1 .. alloc_length(trace) : reduced.val.table[k][1] = 0

----------------------------------------------------------------------------
(* Claims about the histogram and the liveness counter *)

\* C19: no histogram operation fails, and get(k) returns the total that
\* inc and add put at k (0 for a key never written).
C19_HistogramTotals ==
    /\ ~hist_last.panic
    /\ hist_last.op = "get" => hist_last.val = hist_sum[hist_last.key]

\* The number of calls named op made while the timer was at most t, and
\* the sum of the timer values at which they were made: the timer is the
\* number of inc_timer calls made before the call.
RECURSIVE CallsUpTo(_, _, _, _, _)
CallsUpTo(calls, op, t, timer, weigh) ==
    IF calls = <<>> THEN 0
    ELSE LET c == Head(calls)[1]
             now == IF c = "inc_timer" THEN timer + 1 ELSE timer
         IN  (IF c = op /\ timer <= t THEN (IF weigh THEN timer ELSE 1)
              ELSE 0)
             + CallsUpTo(Tail(calls), op, t, now, weigh)

\* C14: after any alloc, free or inc_timer call on a LivenessCounter the
\* call has completed and, for every t in 0 .. n, the four histograms read
\* the running totals at t: the number of alloc (free) calls made at timer
\* <= t and the sum of the timer values of those calls.
C14_RunningTotals ==
    lc_last.op \in {"alloc", "free", "inc_timer"} =>
        /\ ~lc_last.panic
        /\ \A t \in 0 .. lc.n :
               /\ Histogram_get(lc.alloc_counts, t) =
                      HistOutcome(FALSE, lc.alloc_counts,
                          CallsUpTo(lc_calls, "alloc", t, 0, FALSE))
               /\ Histogram_get(lc.free_counts, t) =
                      HistOutcome(FALSE, lc.free_counts,
                          CallsUpTo(lc_calls, "free", t, 0, FALSE))
               /\ Histogram_get(lc.alloc_sum, t) =
                      HistOutcome(FALSE, lc.alloc_sum,
                          CallsUpTo(lc_calls, "alloc", t, 0, TRUE))
               /\ Histogram_get(lc.free_sum, t) =
                      HistOutcome(FALSE, lc.free_sum,
                          CallsUpTo(lc_calls, "free", t, 0, TRUE))

\* The baseline of the liveness test: tick; alloc; tick; alloc; tick;
\* alloc, then liveness(1)
Baseline ==
    <<(<<"inc_timer", 0>>), (<<"alloc", 0>>), (<<"inc_timer", 0>>),
      (<<"alloc", 0>>), (<<"inc_timer", 0>>), (<<"alloc", 0>>),
      (<<"liveness", 1>>)>>

\* C15: liveness(k) is the average live-object count over the windows of
\* length k.  Stated on the cases the claim fixes: every call of the
\* baseline tick; alloc; tick; alloc; tick; alloc; liveness(1) completes
\* and the query returns 2, and a query with n - k + 1 < 0 returns 0.
C15_Liveness ==
    /\ (Len(lc_calls) <= Len(Baseline)
            /\ lc_calls = SubSeq(Baseline, 1, Len(lc_calls))) =>
           /\ ~lc_last.panic
           /\ lc_calls = Baseline => lc_last.val[1] = 2 * lc_last.val[2]
    /\ (lc_last.op = "liveness" /\ lc.n - lc_last.k + 1 < 0) =>
           (~lc_last.panic /\ lc_last.val[1] = 0)

\* The zero case of C15 alone
C15_ZeroCase ==
    (lc_last.op = "liveness" /\ lc.n - lc_last.k + 1 < 0) =>
        (~lc_last.panic /\ lc_last.val[1] = 0)

----------------------------------------------------------------------------
(* Claims about the Trace *)

RECURSIVE MatchedPairs(_, _)
MatchedPairs(acc, pending) ==
    IF acc = <<>> THEN 0
    ELSE LET ev == Head(acc) IN
         IF ev.kind = "Free"
         THEN MatchedPairs(Tail(acc),
                           [pending EXCEPT ![ev.slot] = pending[ev.slot] + 1])
         ELSE IF pending[ev.slot] > 0
              THEN 1 + MatchedPairs(Tail(acc),
                           [pending EXCEPT ![ev.slot] = pending[ev.slot] - 1])
              ELSE MatchedPairs(Tail(acc), pending)

\* C17: for every trace, free_intervals returns at most as many intervals
\* as the trace has matched free/alloc pairs, and every interval (s, e) it
\* returns has s < e.
C17_FreeIntervals ==
    LET intervals == free_intervals(trace) IN
    /\ Len(intervals) <= MatchedPairs(trace.accesses, [s \in Slots |-> 0])
    /\ \A i \in 1 .. Len(intervals) : intervals[i][1] < intervals[i][2]

\* The second half of C17 alone
C17_Ordered ==
    LET intervals == free_intervals(trace) IN
    \A i \in 1 .. Len(intervals) : intervals[i][1] < intervals[i][2]

\* The latest event before index i (1-based) on the slot of event i, or
\* None when there is none
Previous(acc, i) ==
    LET js == {j \in 1 .. i - 1 : acc[j].slot = acc[i].slot} IN
    IF js = {} THEN None
    ELSE Some(acc[CHOOSE j \in js : \A j2 \in js : j2 <= j])

DoubleAlloc(acc) ==
    \E i \in 1 .. Len(acc) :
        /\ acc[i].kind = "Alloc"
        /\ Previous(acc, i).some /\ Previous(acc, i).val.kind = "Alloc"

DoubleFree(acc) ==
    \E i \in 1 .. Len(acc) :
        /\ acc[i].kind = "Free"
        /\ Previous(acc, i).some /\ Previous(acc, i).val.kind = "Free"

FreeBeforeAlloc(acc) ==
    \E i \in 1 .. Len(acc) :
        /\ acc[i].kind = "Free"
        /\ ~\E j \in 1 .. i - 1 : acc[j] = Alloc(acc[i].slot)

\* C18: valid() is false for every trace with a double alloc, a double free
\* or a free before any alloc of its slot, and true for every other trace.
C18_Valid ==
    valid(trace) <=> ~(\/ DoubleAlloc(trace.accesses)
                       \/ DoubleFree(trace.accesses)
                       \/ FreeBeforeAlloc(trace.accesses))

\* C18 witness: a trace of three or more events that valid() rejects only
\* for a free before any alloc of its slot
C18_Witness ==
    /\ ~valid(trace)
    /\ FreeBeforeAlloc(trace.accesses)
    /\ ~DoubleAlloc(trace.accesses) /\ ~DoubleFree(trace.accesses)
    /\ trace.length >= 3

----------------------------------------------------------------------------
(* Claims about the frame of ReuseCounter::alloc and ReuseCounter::free *)

\* C20: an alloc or free on a hibernating counter changes nothing (timer,
\* absent trace and cached table stay as they are); on a sampling counter
\* it appends exactly one event, an Alloc for alloc and a Free for free,
\* to the active trace and changes nothing else.
C20_AllocFreeFrame ==
    [][rc_hist'.val.last \in {"alloc", "free"} =>
          IF ReuseCounter_sampling(rc.val)
          THEN \E slot \in Slots :
                   rc'.val = [rc.val EXCEPT !.trace =
                       Some([accesses |->
                                 Append(rc.val.trace.val.accesses,
                                        IF rc_hist'.val.last = "alloc"
                                        THEN Alloc(slot) ELSE Free(slot)),
                             length |-> rc.val.trace.val.length + 1])]
          ELSE rc'.val = rc.val]_vars

\* C20 witness: an alloc made while the counter hibernates with a cached
\* table
C20_Witness ==
    /\ rc_hist.val.last = "alloc"
    /\ ~ReuseCounter_sampling(rc.val)
    /\ rc.val.reuse.some
    /\ rc.val.n >= 1

----------------------------------------------------------------------------
(* Claims about what free_intervals emits *)

\* The latest Free of the slot of event i (1-based) before i: its index, or
\* 0 when the slot has no earlier Free
LastFree(acc, i) ==
    LET js == {j \in 1 .. i - 1 : acc[j] = Free(acc[i].slot)} IN
    IF js = {} THEN 0 ELSE CHOOSE j \in js : \A j2 \in js : j2 <= j

\* The slot of event i is free when event i happens: the latest earlier
\* event on the slot is a Free
CurrentlyFreed(acc, i) ==
    Previous(acc, i).some /\ Previous(acc, i).val.kind = "Free"

\* The slot of event i has had a Free before event i
EverFreed(acc, i) == LastFree(acc, i) # 0

\* The pairs (0-based timestamps) of the Alloc events among the first i
\* events whose slot is freed (current: at that moment; else: at any
\* earlier moment), in the order of the events
RECURSIVE PairsUpTo(_, _, _)
PairsUpTo(acc, i, current) ==
    IF i = 0 THEN <<>>
    ELSE IF /\ acc[i].kind = "Alloc"
            /\ IF current THEN CurrentlyFreed(acc, i) ELSE EverFreed(acc, i)
         THEN Append(PairsUpTo(acc, i - 1, current),
                     <<LastFree(acc, i) - 1, i - 1>>)
         ELSE PairsUpTo(acc, i - 1, current)

\* C21: free_intervals emits, in the order of the Alloc events, exactly one
\* pair (timestamp of the most recent Free of the slot, timestamp of the
\* Alloc) for each Alloc whose slot is freed at that moment, and nothing
\* for any other event.
C21_Emits ==
    free_intervals(trace) =
        PairsUpTo(trace.accesses, Len(trace.accesses), TRUE)

\* What the code emits: one pair for each Alloc whose slot has had a Free
\* at any earlier moment
C21_EverFreed ==
    free_intervals(trace) =
        PairsUpTo(trace.accesses, Len(trace.accesses), FALSE)

----------------------------------------------------------------------------
(* Claims about the dynamic APF, the allocation clock and the return *)

\* C22: calculate_dapf is T when time >= T * (fetch_count + 1) and
\* T * (fetch_count + 1) - time otherwise; at time = T * (fetch_count + 1)
\* it is T, not 0.
C22_Dapf ==
    (tuner.some /\ TARGET_APF.some) =>
        LET T == TARGET_APF.val
            target == T * (tuner.val.fetch_count + 1)
            dapf == calculate_dapf(tuner.val, T)
        IN  /\ tuner.val.time >= target => dapf = T
            /\ tuner.val.time < target => dapf = target - tuner.val.time
            /\ tuner.val.time = target => dapf = T

\* C22 witness: a malloc has brought time to T * (fetch_count + 1)
C22_Witness ==
    /\ tuner.some /\ last.op = "malloc" /\ TARGET_APF.val >= 1
    /\ tuner.val.time = TARGET_APF.val * (tuner.val.fetch_count + 1)

\* The allocation clock of C23, with B the burst length and H the
\* hibernation period: the counter's position is a function of the number
\* of malloc calls alone, the sampled trace holds one Alloc per tick, and
\* the table is cached from the B-th malloc on.
AllocationClockCycle ==
    LET tn == tuner.val
        c == tn.r_counter
        B == c.burst_length
        H == c.hibernation_period
        phase == tn.time % (B + H)
    IN  /\ ReuseCounter_sampling(c) <=> phase < B
        /\ ReuseCounter_sampling(c) =>
               (c.n = phase /\ alloc_length(c.trace.val) = phase)
        /\ ~ReuseCounter_sampling(c) => c.n = phase - B
        /\ c.reuse.some <=> tn.time >= B

\* C23: under the allocation clock, whatever frees are interleaved, every
\* malloc and free completes, the reuse counter ticks once per malloc
\* after the Alloc is recorded (a burst holds exactly B Alloc events when
\* it is reduced), the first table is cached during the B-th malloc and a
\* cycle spans B + H malloc calls.
C23_AllocationClock ==
    tuner.some =>
        /\ ~(last.op \in {"malloc", "free"} /\ last.result = "panic")
        /\ AllocationClockCycle

\* C23 on the calls that complete
C23_WhenCompleted ==
    (tuner.some /\ ~aborted) => AllocationClockCycle

\* C24: when free invokes return, the number of blocks it asks to return
\* is at least 1 and at most the count check(id) reported in that call.
C24_ReturnWithinCheck ==
    (Returned("free") /\ Len(last.ret) = 1) =>
        /\ last.ret[1] >= 1
        /\ last.ret[1] <= last.check.val

\* C24 witness: a return made on a demand that is not a whole number
C24_Witness ==
    /\ Returned("free") /\ Len(last.ret) = 1
    /\ CurrentDemand.val[1] % CurrentDemand.val[2] # 0
    /\ last.ret[1] = Ceil(CurrentDemand.val) + 1

\* C25: with TARGET_APF = T >= 1, calculate_dapf is in 1 .. T in every
\* state of the tuner.
C25_DapfInRange ==
    (tuner.some /\ TARGET_APF.val >= 1) =>
        calculate_dapf(tuner.val, TARGET_APF.val) \in 1 .. TARGET_APF.val

\* C25 witness: the residual below T before the target is reached
C25_Witness ==
    /\ tuner.some /\ last.op = "malloc" /\ ~aborted
    /\ TARGET_APF.val >= 2
    /\ tuner.val.time < TARGET_APF.val
    /\ calculate_dapf(tuner.val, TARGET_APF.val) < TARGET_APF.val

\* C26: after every operation that returns, the trace is present iff the
\* counter is sampling, the timer is in 0 .. B - 1 while sampling and in
\* 0 .. H - 1 while hibernating, and the timer is 0 after every transition
\* between sampling and hibernating.
C26_CounterInvariant ==
    /\ [](~RcHist.panicked =>
             /\ Counter.trace.some <=> ReuseCounter_sampling(Counter)
             /\ ReuseCounter_sampling(Counter) =>
                    (0 <= Counter.n /\ Counter.n < Counter.burst_length)
             /\ ~ReuseCounter_sampling(Counter) =>
                    (0 <= Counter.n /\ Counter.n < Counter.hibernation_period))
    /\ [][(~rc_hist'.val.panicked /\
           ReuseCounter_sampling(rc'.val) # ReuseCounter_sampling(Counter))
              => rc'.val.n = 0]_vars

\* C26 witness: a counter back in sampling after a whole cycle, its timer
\* advanced again
C26_Witness ==
    /\ ~RcHist.panicked
    /\ RcHist.bursts >= 1
    /\ ReuseCounter_sampling(Counter)
    /\ Counter.n >= 1
    /\ RcHist.last = "inc_timer"

============================================================================
